---- MODULE Spec2Model ----
(***************************************************************************)
(* A model of the Darknet inference native module (src/src/main.rs):       *)
(* main reads the execution configuration, try_parse deserializes it,      *)
(* infer loads the network and the labels, opens the image, runs predict,  *)
(* applies the class threshold, sorts by descending probability, formats   *)
(* the lines and writes them to the output path.                           *)
(*                                                                         *)
(* An f32 is kept as its four little-endian bytes (the IEEE-754 bit        *)
(* pattern), so that NaN and the comparisons of the code are the real      *)
(* ones.  A text is a sequence of one-character strings; a byte buffer is  *)
(* a sequence of numbers in 0..255.                                        *)
(***************************************************************************)
EXTENDS Integers, Sequences, FiniteSets, TLC

VARIABLES
    pc,                  \* position of the process in main / infer
    input,               \* main: the bytes read from /execution_config
    service,             \* the DarknetInferenceService (the configuration)
    parse_ret,           \* what try_parse returned: "none" before the call
    labels_text,         \* infer: the String read_to_string returned
    object_labels,       \* infer: Vec<String>
    detections,          \* infer: what net.predict returned
    labeled_detections,  \* infer: Vec<(usize, (Detection, f32, &String))>
    output,              \* infer: the formatted String, one element per line
    file,                \* the file at the output path, as this run leaves it
    result,              \* "running", or how the process ended
    err,                 \* the step that failed, "none" while none has
    trace                \* the calls made so far, in order

vars == <<pc, input, service, parse_ret, labels_text, object_labels, detections,
          labeled_detections, output, file, result, err, trace>>

(***************************************************************************)
(* Bounds of the model.                                                    *)
(***************************************************************************)
\* the most raw detections predict returns
MaxDet == 3
\* the most characters of a labels file (SpecLabels)
MaxFileLen == 4

(***************************************************************************)
(* f32: bit patterns and the comparisons of IEEE-754.                      *)
(***************************************************************************)
F32Zero == <<0, 0, 0, 0>>
F32Quarter == <<0, 0, 128, 62>>     \* 0.25
F32Half == <<0, 0, 0, 63>>          \* 0.5
F32NineTenths == <<102, 102, 102, 63>>   \* 0.9
F32NaN == <<0, 0, 192, 127>>

\* the bits below the sign bit
Magnitude(f) == (f[4] % 128) * 16777216 + f[3] * 65536 + f[2] * 256 + f[1]
SignBit(f) == f[4] >= 128
\* exponent all ones and a mantissa that is not zero
IsNaN(f) == Magnitude(f) > 127 * 16777216 + 128 * 65536
\* a number ordered as the float is (+0 and -0 agree); not for NaN
Key(f) == IF SignBit(f) THEN 0 - Magnitude(f) ELSE Magnitude(f)
\* the operators >, < and >= of f32: false as soon as one side is NaN
Gt(a, b) == ~IsNaN(a) /\ ~IsNaN(b) /\ Key(a) > Key(b)
Lt(a, b) == ~IsNaN(a) /\ ~IsNaN(b) /\ Key(a) < Key(b)
Ge(a, b) == ~IsNaN(a) /\ ~IsNaN(b) /\ Key(a) >= Key(b)

(***************************************************************************)
(* The configuration.                                                      *)
(***************************************************************************)
\* DarknetInferenceService::new
New ==
    [input_path |-> <<>>, cfg_path |-> <<>>, model_path |-> <<>>,
     labels_path |-> <<>>, output_path |-> <<>>,
     objectness_threshold |-> F32Zero, class_threshold |-> F32Zero,
     hierarchical_threshold |-> F32Zero, iou_threshold |-> F32Zero,
     letterbox |-> TRUE]

\* the fields of the struct in declaration order, with the kind of each
Fields ==
    << <<"input_path", "path">>, <<"cfg_path", "path">>, <<"model_path", "path">>,
       <<"labels_path", "path">>, <<"output_path", "path">>,
       <<"objectness_threshold", "f32">>, <<"class_threshold", "f32">>,
       <<"hierarchical_threshold", "f32">>, <<"iou_threshold", "f32">>,
       <<"letterbox", "bool">> >>

Drop(b, n) == SubSeq(b, n + 1, Len(b))
NoValue == [ok |-> FALSE]

\* a length: 7 bits a byte, least significant first, the top bit set on every
\* byte but the last
RECURSIVE TakeVarint(_)
TakeVarint(b) ==
    IF b = <<>> THEN NoValue
    ELSE IF b[1] < 128 THEN [ok |-> TRUE, val |-> b[1], rest |-> Drop(b, 1)]
    ELSE LET more == TakeVarint(Drop(b, 1))
         IN  IF ~more.ok THEN NoValue
             ELSE [ok |-> TRUE, val |-> (b[1] % 128) + 128 * more.val, rest |-> more.rest]

\* The buffers enumerated below hold ASCII bytes and 255, a byte no UTF-8 text
\* contains; multi-byte UTF-8 sequences are not among them.
IsUtf8(s) == \A i \in 1..Len(s) : s[i] < 128

\* a PathBuf: a length, then that many bytes of UTF-8
TakePath(b) ==
    LET n == TakeVarint(b)
    IN  IF ~n.ok THEN NoValue
        ELSE IF Len(n.rest) < n.val THEN NoValue
        ELSE IF ~IsUtf8(SubSeq(n.rest, 1, n.val)) THEN NoValue
        ELSE [ok |-> TRUE, val |-> SubSeq(n.rest, 1, n.val), rest |-> Drop(n.rest, n.val)]

\* an f32: four bytes, little-endian
TakeF32(b) ==
    IF Len(b) < 4 THEN NoValue
    ELSE [ok |-> TRUE, val |-> SubSeq(b, 1, 4), rest |-> Drop(b, 4)]

\* a bool: one byte, 0 or 1
TakeBool(b) ==
    IF b = <<>> THEN NoValue
    ELSE IF b[1] \notin {0, 1} THEN NoValue
    ELSE [ok |-> TRUE, val |-> (b[1] = 1), rest |-> Drop(b, 1)]

Take(kind, b) ==
    CASE kind = "path" -> TakePath(b)
      [] kind = "f32" -> TakeF32(b)
      [] kind = "bool" -> TakeBool(b)

\* the fields from the i-th on, read one after another into acc
RECURSIVE TakeFields(_, _, _)
TakeFields(b, i, acc) ==
    IF i > Len(Fields) THEN [ok |-> TRUE, val |-> acc]
    ELSE LET t == Take(Fields[i][2], b)
         IN  IF ~t.ok THEN NoValue
             ELSE TakeFields(t.rest, i + 1, (Fields[i][1] :> t.val) @@ acc)

\* postcard::from_bytes::<DarknetInferenceService>: the bytes left over after
\* the last field are ignored
from_bytes(b) ==
    LET t == TakeFields(b, 1, <<>>)
    IN  IF ~t.ok THEN NoValue
        ELSE [ok |-> TRUE,
              val |-> [input_path |-> t.val["input_path"],
                       cfg_path |-> t.val["cfg_path"],
                       model_path |-> t.val["model_path"],
                       labels_path |-> t.val["labels_path"],
                       output_path |-> t.val["output_path"],
                       objectness_threshold |-> t.val["objectness_threshold"],
                       class_threshold |-> t.val["class_threshold"],
                       hierarchical_threshold |-> t.val["hierarchical_threshold"],
                       iou_threshold |-> t.val["iou_threshold"],
                       letterbox |-> t.val["letterbox"]]]

\* a mutant of try_parse: a failure resets the service to an all-default one
try_parse_resetting(self, bytes) ==
    LET d == from_bytes(bytes)
    IN  IF ~d.ok THEN [ret |-> "Ok(false)", self |-> [New EXCEPT !.letterbox = FALSE]]
        ELSE [ret |-> "Ok(true)", self |-> d.val]

\* DarknetInferenceService::try_parse: the value returned and *self after it
try_parse(self, bytes) ==
    LET d == from_bytes(bytes)
    IN  IF ~d.ok THEN [ret |-> "Ok(false)", self |-> self]
        ELSE [ret |-> "Ok(true)", self |-> d.val]

(***************************************************************************)
(* The labels file.                                                        *)
(***************************************************************************)
FirstNewline(t) ==
    IF \E i \in 1..Len(t) : t[i] = "\n"
    THEN CHOOSE i \in 1..Len(t) : t[i] = "\n" /\ \A j \in 1..(i - 1) : t[j] # "\n"
    ELSE 0

\* a line that ended in "\r\n" loses the "\r" too
StripCR(l) == IF l # <<>> /\ l[Len(l)] = "\r" THEN SubSeq(l, 1, Len(l) - 1) ELSE l

\* a mutant of Lines: the empty lines are left out
RECURSIVE LinesNonEmpty(_)
LinesNonEmpty(t) ==
    IF t = <<>> THEN <<>>
    ELSE LET nl == FirstNewline(t)
         IN  IF nl = 0 THEN <<t>>
             ELSE (IF nl = 1 THEN <<>> ELSE <<StripCR(SubSeq(t, 1, nl - 1))>>)
                  \o LinesNonEmpty(Drop(t, nl))

\* str::lines().map(ToOwned::to_owned).collect(): the text split at every line
\* feed; what follows the last line feed is a line only if it is not empty
RECURSIVE Lines(_)
Lines(t) ==
    IF t = <<>> THEN <<>>
    ELSE LET nl == FirstNewline(t)
         IN  IF nl = 0 THEN <<t>>
             ELSE <<StripCR(SubSeq(t, 1, nl - 1))>> \o Lines(Drop(t, nl))

(***************************************************************************)
(* Post-processing: the class threshold, the labels, the sort.             *)
(***************************************************************************)
None == [some |-> FALSE]

\* Detection::best_class(Some(thresh)) of the darknet crate, as infer calls it:
\* of the classes whose probability is >= thresh, the one of greatest
\* probability (the last of them when several are); class indices count from 0
best_class(det, thresh) ==
    LET kept == {c \in 1..Len(det.probs) : Ge(det.probs[c], thresh)}
    IN  IF kept = {} THEN None
        ELSE LET c == CHOOSE c \in kept :
                        \A d \in kept : \/ Gt(det.probs[c], det.probs[d])
                                        \/ (~Gt(det.probs[d], det.probs[c]) /\ d <= c)
             IN  [some |-> TRUE, class_index |-> c - 1, prob |-> det.probs[c]]

\* the raw detections that yield an entry, in order, each with its best class
RECURSIVE Survivors(_, _)
Survivors(dets, thresh) ==
    IF dets = <<>> THEN <<>>
    ELSE LET b == best_class(Head(dets), thresh)
         IN  (IF b.some THEN <<[det |-> Head(dets), best |-> b]>> ELSE <<>>)
             \o Survivors(Tail(dets), thresh)

\* a mutant of Collect: the class threshold is not applied
CollectNoThreshold(dets, labels, thresh) ==
    LET s == Survivors(dets, F32Zero)
    IN  IF \E i \in 1..Len(s) : s[i].best.class_index >= Len(labels)
        THEN [panic |-> TRUE, vec |-> <<>>]
        ELSE [panic |-> FALSE,
              vec |-> [i \in 1..Len(s) |->
                         [idx |-> i - 1, det |-> s[i].det, prob |-> s[i].best.prob,
                          label |-> labels[s[i].best.class_index + 1]]]]

\* a mutant of Collect: an index past the end of the labels wraps around
CollectWrapping(dets, labels, thresh) ==
    LET s == Survivors(dets, thresh)
    IN  IF labels = <<>> /\ s # <<>>
        THEN [panic |-> TRUE, vec |-> <<>>]
        ELSE [panic |-> FALSE,
              vec |-> [i \in 1..Len(s) |->
                         [idx |-> i - 1, det |-> s[i].det, prob |-> s[i].best.prob,
                          label |-> labels[(s[i].best.class_index % Len(labels)) + 1]]]]

\* a mutant of Collect: an empty sequence of detections is an error
CollectEmptyPanics(dets, labels, thresh) ==
    LET s == Survivors(dets, thresh)
    IN  IF dets = <<>> \/ \E i \in 1..Len(s) : s[i].best.class_index >= Len(labels)
        THEN [panic |-> TRUE, vec |-> <<>>]
        ELSE [panic |-> FALSE,
              vec |-> [i \in 1..Len(s) |->
                         [idx |-> i - 1, det |-> s[i].det, prob |-> s[i].best.prob,
                          label |-> labels[s[i].best.class_index + 1]]]]

\* detections.iter().flat_map(..).enumerate().collect(): one entry for every
\* detection that has a best class, numbered from 0; indexing object_labels
\* past its end panics
Collect(dets, labels, thresh) ==
    LET s == Survivors(dets, thresh)
    IN  IF \E i \in 1..Len(s) : s[i].best.class_index >= Len(labels)
        THEN [panic |-> TRUE, vec |-> <<>>]
        ELSE [panic |-> FALSE,
              vec |-> [i \in 1..Len(s) |->
                         [idx |-> i - 1, det |-> s[i].det, prob |-> s[i].best.prob,
                          label |-> labels[s[i].best.class_index + 1]]]]

\* the closure given to sort_by
compare(a, b) ==
    IF Gt(b.prob, a.prob) THEN "Greater"
    ELSE IF Lt(b.prob, a.prob) THEN "Less"
    ELSE "Equal"

\* x put into the sorted v: before the first element that compares Greater
\* than x, so after every element x is Equal to
InsertStable(v, x) ==
    LET after == {i \in 1..Len(v) : compare(v[i], x) = "Greater"}
        k == IF after = {} THEN Len(v) + 1
             ELSE CHOOSE i \in after : \A j \in after : i <= j
    IN  SubSeq(v, 1, k - 1) \o <<x>> \o SubSeq(v, k, Len(v))

\* x put into the sorted v before the elements it is Equal to
InsertBeforeEqual(v, x) ==
    LET after == {i \in 1..Len(v) : compare(v[i], x) # "Less"}
        k == IF after = {} THEN Len(v) + 1
             ELSE CHOOSE i \in after : \A j \in after : i <= j
    IN  SubSeq(v, 1, k - 1) \o <<x>> \o SubSeq(v, k, Len(v))

\* x put into v as if the closure's Greater and Less were exchanged
InsertAscending(v, x) ==
    LET after == {i \in 1..Len(v) : compare(v[i], x) = "Less"}
        k == IF after = {} THEN Len(v) + 1
             ELSE CHOOSE i \in after : \A j \in after : i <= j
    IN  SubSeq(v, 1, k - 1) \o <<x>> \o SubSeq(v, k, Len(v))

\* a mutant of sort_by: an unstable sort
RECURSIVE sort_unstable_by(_)
sort_unstable_by(v) ==
    IF v = <<>> THEN <<>>
    ELSE InsertBeforeEqual(sort_unstable_by(SubSeq(v, 1, Len(v) - 1)), v[Len(v)])

\* a mutant of sort_by: ascending
RECURSIVE sort_ascending(_)
sort_ascending(v) ==
    IF v = <<>> THEN <<>>
    ELSE InsertAscending(sort_ascending(SubSeq(v, 1, Len(v) - 1)), v[Len(v)])

\* labeled_detections.sort_by(compare): a stable sort
RECURSIVE sort_by(_)
sort_by(v) ==
    IF v = <<>> THEN <<>>
    ELSE InsertStable(sort_by(SubSeq(v, 1, Len(v) - 1)), v[Len(v)])

\* the loop of write!: one line for every entry, in the order of the vector
format(v) ==
    [i \in 1..Len(v) |-> [label |-> v[i].label, prob |-> v[i].prob, bbox |-> v[i].det.bbox]]

(***************************************************************************)
(* What the environment supplies: the configuration bytes, the labels      *)
(* file, the detections of the network.                                    *)
(***************************************************************************)
\* a serialized configuration: five one-character paths, four thresholds, a bool
Serialized(thr, lb) ==
    <<1, 105, 1, 99, 1, 109, 1, 108, 1, 111>>
    \o F32Half \o thr \o F32Half \o F32Half \o <<IF lb THEN 1 ELSE 0>>

\* the configuration those bytes stand for
Configured(thr, lb) ==
    [input_path |-> <<105>>, cfg_path |-> <<99>>, model_path |-> <<109>>,
     labels_path |-> <<108>>, output_path |-> <<111>>,
     objectness_threshold |-> F32Half, class_threshold |-> thr,
     hierarchical_threshold |-> F32Half, iou_threshold |-> F32Half,
     letterbox |-> lb]

Thresholds == {F32Zero, F32Half, F32NaN}

\* five empty paths, four zero thresholds, true
SerializedEmptyPaths == <<0, 0, 0, 0, 0>> \o F32Zero \o F32Zero \o F32Zero \o F32Zero \o <<1>>

WellFormedBuffers ==
    {Serialized(thr, TRUE) : thr \in Thresholds}
    \cup {Serialized(F32Half, FALSE), Serialized(F32Half, TRUE) \o <<7>>, SerializedEmptyPaths}

\* cut short, a length without its last byte, a length past the end, a byte
\* that is not UTF-8, a bool that is neither 0 nor 1
MalformedBuffers ==
    {SubSeq(Serialized(F32Half, TRUE), 1, n) : n \in 0..(Len(Serialized(F32Half, TRUE)) - 1)}
    \cup {<<128>>, <<3, 105>>, <<1, 255>> \o Drop(Serialized(F32Half, TRUE), 2),
          SubSeq(Serialized(F32Half, TRUE), 1, Len(Serialized(F32Half, TRUE)) - 1) \o <<2>>}

InputBuffers == WellFormedBuffers \cup MalformedBuffers

\* the labels files of Spec: no line, one, two, and three with the second empty
LabelFiles ==
    {<<>>, <<"c", "\n">>, <<"c", "\n", "d">>, <<"c", "\n", "\n", "d">>}

\* the labels files of SpecLabels: every text of at most MaxFileLen characters
AllLabelFiles == UNION {[1..n -> {"c", "d", "\n"}] : n \in 0..MaxFileLen}

\* the class probabilities of one detection of a two-class network
ProbVectors ==
    {<<F32NineTenths, F32Quarter>>, <<F32Quarter, F32NineTenths>>,
     <<F32Half, F32Quarter>>, <<F32Quarter, F32Half>>,
     <<F32Quarter, F32Quarter>>, <<F32NaN, F32Half>>}

\* every sequence of at most MaxDet detections; a detection's box is its
\* position in the sequence
RawDetections ==
    UNION {{[i \in 1..n |-> [bbox |-> i, probs |-> f[i]]] : f \in [1..n -> ProbVectors]}
           : n \in 0..MaxDet}

\* the detections of SpecLabels
FewDetections ==
    {<<>>,
     <<[bbox |-> 1, probs |-> <<F32NineTenths, F32Quarter>>]>>,
     <<[bbox |-> 1, probs |-> <<F32Quarter, F32NineTenths>>],
       [bbox |-> 2, probs |-> <<F32NineTenths, F32Quarter>>]>>}

(***************************************************************************)
(* The process.                                                            *)
(***************************************************************************)
NoFile == [created |-> FALSE, data |-> <<>>]

\* main, line 169: service = DarknetInferenceService::new()
Init ==
    /\ pc = "open_config"
    /\ input = <<>>
    /\ service = New
    /\ parse_ret = "none"
    /\ labels_text = <<>>
    /\ object_labels = <<>>
    /\ detections = <<>>
    /\ labeled_detections = <<>>
    /\ output = <<>>
    /\ file = NoFile
    /\ result = "running"
    /\ err = "none"
    /\ trace = <<>>

\* the ? operator on an Err: the error goes up to main, which returns it
Fail(step) ==
    /\ pc' = "done"
    /\ result' = "Err"
    /\ err' = step

\* main: File::open("/execution_config")? and f.read_to_end(&mut input)?
OpenConfig(buffers) ==
    /\ pc = "open_config"
    /\ trace' = Append(trace, "File::open")
    /\ \/ /\ Fail("File::open")
          /\ UNCHANGED input
       \/ /\ Fail("read_to_end")
          /\ UNCHANGED input
       \/ /\ \E b \in buffers : input' = b
          /\ pc' = "try_parse"
          /\ UNCHANGED <<result, err>>
    /\ UNCHANGED <<service, parse_ret, labels_text, object_labels, detections,
                   labeled_detections, output, file>>

\* main: service.try_parse(&input)?; the bool it returns is dropped, and
\* try_parse returns no Err
TryParse ==
    /\ pc = "try_parse"
    /\ trace' = Append(trace, "try_parse")
    /\ service' = try_parse(service, input).self
    /\ parse_ret' = try_parse(service, input).ret
    /\ pc' = "load_network"
    /\ UNCHANGED <<input, labels_text, object_labels, detections, labeled_detections,
                   output, file, result, err>>

\* infer: Network::load(cfg_path, Some(model_path), false)?; no file is at
\* an empty path
LoadNetwork ==
    /\ pc = "load_network"
    /\ trace' = Append(trace, "Network::load")
    /\ \/ /\ service.cfg_path # <<>>
          /\ service.model_path # <<>>
          /\ pc' = "read_labels"
          /\ UNCHANGED <<result, err>>
       \/ Fail("Network::load")
    /\ UNCHANGED <<input, service, parse_ret, labels_text, object_labels, detections,
                   labeled_detections, output, file>>

\* infer: read_to_string(labels_path)?.lines().map(..).collect()
ReadLabels(files) ==
    /\ pc = "read_labels"
    /\ trace' = Append(trace, "read_to_string")
    /\ \/ /\ service.labels_path # <<>>
          /\ \E t \in files :
                /\ labels_text' = t
                /\ object_labels' = Lines(t)
          /\ pc' = "open_image"
          /\ UNCHANGED <<result, err>>
       \/ /\ Fail("read_to_string")
          /\ UNCHANGED <<labels_text, object_labels>>
    /\ UNCHANGED <<input, service, parse_ret, detections, labeled_detections,
                   output, file>>

\* infer: Image::open(input_path)?
OpenImage ==
    /\ pc = "open_image"
    /\ trace' = Append(trace, "Image::open")
    /\ \/ /\ service.input_path # <<>>
          /\ pc' = "predict"
          /\ UNCHANGED <<result, err>>
       \/ Fail("Image::open")
    /\ UNCHANGED <<input, service, parse_ret, labels_text, object_labels, detections,
                   labeled_detections, output, file>>

\* infer: net.predict(&image, ..), which returns the detections and no Result
Predict(dets) ==
    /\ pc = "predict"
    /\ trace' = Append(trace, "predict")
    /\ \E d \in dets : detections' = d
    /\ pc' = "collect"
    /\ UNCHANGED <<input, service, parse_ret, labels_text, object_labels,
                   labeled_detections, output, file, result, err>>

\* infer, lines 123-130: apply the class threshold and map to labels; a panic
\* ends the process
CollectLabeled ==
    /\ pc = "collect"
    /\ trace' = Append(trace, "collect")
    /\ LET c == Collect(detections, object_labels, service.class_threshold)
       IN  \/ /\ c.panic
              /\ pc' = "done"
              /\ result' = "panic"
              /\ err' = "index out of bounds"
              /\ UNCHANGED labeled_detections
           \/ /\ ~c.panic
              /\ labeled_detections' = c.vec
              /\ pc' = "sort"
              /\ UNCHANGED <<result, err>>
    /\ UNCHANGED <<input, service, parse_ret, labels_text, object_labels, detections,
                   output, file>>

\* infer, lines 133-143
Sort ==
    /\ pc = "sort"
    /\ trace' = Append(trace, "sort_by")
    /\ labeled_detections' = sort_by(labeled_detections)
    /\ pc' = "format"
    /\ UNCHANGED <<input, service, parse_ret, labels_text, object_labels, detections,
                   output, file, result, err>>

\* infer, lines 146-159: write! into a String returns no Err
Format ==
    /\ pc = "format"
    /\ trace' = Append(trace, "format")
    /\ output' = format(labeled_detections)
    /\ pc' = "create"
    /\ UNCHANGED <<input, service, parse_ret, labels_text, object_labels, detections,
                   labeled_detections, file, result, err>>

\* infer: File::create(Path::new("/").join(output_path))?: the file is there
\* and empty, or the call fails; "/" itself is a directory
CreateFile ==
    /\ pc = "create"
    /\ trace' = Append(trace, "File::create")
    /\ \/ /\ service.output_path # <<>>
          /\ file' = [created |-> TRUE, data |-> <<>>]
          /\ pc' = "write_all"
          /\ UNCHANGED <<result, err>>
       \/ /\ Fail("File::create")
          /\ UNCHANGED file
    /\ UNCHANGED <<input, service, parse_ret, labels_text, object_labels, detections,
                   labeled_detections, output>>

\* Write::write_all(buf): nothing to do for an empty buf; else the file gets all
\* of it and the call returns Ok, or a part of it and the call returns Err
write_all(f, buf) ==
    IF buf = <<>> THEN {[file |-> f, ok |-> TRUE]}
    ELSE {[file |-> [f EXCEPT !.data = buf], ok |-> TRUE]}
         \cup {[file |-> [f EXCEPT !.data = SubSeq(buf, 1, k)], ok |-> FALSE]
               : k \in 0..(Len(buf) - 1)}

\* infer: file.write_all(&output.into_bytes())?; Ok(())
WriteAll ==
    /\ pc = "write_all"
    /\ trace' = Append(trace, "write_all")
    /\ \E w \in write_all(file, output) :
          /\ file' = w.file
          /\ \/ /\ w.ok
                /\ pc' = "done"
                /\ result' = "Ok"
                /\ UNCHANGED err
             \/ /\ ~w.ok
                /\ Fail("write_all")
    /\ UNCHANGED <<input, service, parse_ret, labels_text, object_labels, detections,
                   labeled_detections, output>>

Next ==
    \/ OpenConfig(InputBuffers)
    \/ TryParse
    \/ LoadNetwork
    \/ ReadLabels(LabelFiles)
    \/ OpenImage
    \/ Predict(RawDetections)
    \/ CollectLabeled
    \/ Sort
    \/ Format
    \/ CreateFile
    \/ WriteAll

Spec == Init /\ [][Next]_vars

\* the same process, given every short labels file and a few detections
NextLabels ==
    \/ OpenConfig({Serialized(F32Half, TRUE)})
    \/ TryParse
    \/ LoadNetwork
    \/ ReadLabels(AllLabelFiles)
    \/ OpenImage
    \/ Predict(FewDetections)
    \/ CollectLabeled
    \/ Sort
    \/ Format
    \/ CreateFile
    \/ WriteAll

SpecLabels == Init /\ [][NextLabels]_vars

(***************************************************************************)
(* The properties.                                                         *)
(***************************************************************************)
Range(s) == {s[i] : i \in 1..Len(s)}
Called(step) == step \in Range(trace)

\* some class of the detection has a probability >= thr, which is to say that
\* the greatest of them, the best-class probability, is >= thr
Qualifies(det, thr) == \E c \in 1..Len(det.probs) : Ge(det.probs[c], thr)

\* the collect went through without a panic
Collected == Called("collect") /\ result # "panic"

\* how many elements of the sequence s have the box b
CountBox(s, b) == Cardinality({k \in 1..Len(s) : s[k] = b})

\* C1: once the class threshold has been applied (every best-class index in
\* range), the labeled detections hold exactly one entry for each raw detection
\* whose best-class probability is >= class_threshold, none for any other raw
\* detection, and nothing that is not a raw detection; so does the file written.
C1_ExactlyTheQualifying ==
    Collected =>
        /\ \A i \in 1..Len(detections) :
              CountBox([k \in 1..Len(labeled_detections) |-> labeled_detections[k].det.bbox],
                       detections[i].bbox)
                = IF Qualifies(detections[i], service.class_threshold) THEN 1 ELSE 0
        /\ \A k \in 1..Len(labeled_detections) :
              labeled_detections[k].det \in Range(detections)
        /\ result = "Ok" =>
              /\ Len(file.data) = Len(labeled_detections)
              /\ \A i \in 1..Len(detections) :
                    CountBox([k \in 1..Len(file.data) |-> file.data[k].bbox],
                             detections[i].bbox)
                      = IF Qualifies(detections[i], service.class_threshold) THEN 1 ELSE 0

\* a run that kept one detection and dropped another, under a threshold of 0.5
C1_Witness ==
    /\ result = "Ok"
    /\ service.class_threshold = F32Half
    /\ Len(detections) = 3
    /\ Len(file.data) = 2
    /\ \E i \in 1..Len(detections) : ~Qualifies(detections[i], F32Half)
    /\ file.data[1].bbox = 1

Descending(s) == \A i \in 1..(Len(s) - 1) : Ge(s[i].prob, s[i + 1].prob)

\* C2: after the sort, and in the file infer writes, every entry's probability
\* is >= the probability of the entry after it.
C2_DescendingProbability ==
    /\ (Called("sort_by") => Descending(labeled_detections))
    /\ (Called("format") => Descending(output))
    /\ (result = "Ok" => Descending(file.data))

\* a run whose detections came in ascending order of probability
C2_Witness ==
    /\ result = "Ok"
    /\ Len(file.data) = 3
    /\ file.data[1].bbox = 3
    /\ file.data[3].bbox = 1
    /\ Gt(file.data[1].prob, file.data[2].prob)
    /\ Gt(file.data[2].prob, file.data[3].prob)

SameProbability(a, b) == ~Gt(a.prob, b.prob) /\ ~Lt(a.prob, b.prob)

\* C3: of two surviving detections of equal probability, the one that came
\* first in the raw detections (and so got the smaller number in the collect)
\* comes first after the sort and in the file.
C3_TiesKeepInputOrder ==
    /\ Called("sort_by") =>
          \A i, j \in 1..Len(labeled_detections) :
              (i < j /\ SameProbability(labeled_detections[i], labeled_detections[j]))
                  => /\ labeled_detections[i].det.bbox < labeled_detections[j].det.bbox
                     /\ labeled_detections[i].idx < labeled_detections[j].idx
    /\ result = "Ok" =>
          \A i, j \in 1..Len(file.data) :
              (i < j /\ SameProbability(file.data[i], file.data[j]))
                  => file.data[i].bbox < file.data[j].bbox

\* two detections of equal probability, moved behind a later one of greater
\* probability
C3_Witness ==
    /\ result = "Ok"
    /\ Len(file.data) = 3
    /\ file.data[1].bbox = 3
    /\ file.data[2].bbox = 1
    /\ file.data[3].bbox = 2
    /\ SameProbability(file.data[2], file.data[3])

\* a detection passes the class threshold with a best class the labels do not have
OutOfRange(det) ==
    LET b == best_class(det, service.class_threshold)
    IN  b.some /\ b.class_index >= Len(object_labels)

\* C4: if a raw detection that passes the class threshold has a best class
\* index >= the number of labels, the collect ends the process in failure: no
\* labeled detection is produced and this run creates no file; and a label that
\* is produced is the one at the best class index, never another one.
C4_OutOfRangeIndexFails ==
    /\ (Called("collect") /\ \E i \in 1..Len(detections) : OutOfRange(detections[i]))
          => /\ pc = "done"
             /\ result = "panic"
             /\ labeled_detections = <<>>
             /\ output = <<>>
             /\ file = NoFile
    /\ Collected =>
          \A k \in 1..Len(labeled_detections) :
              LET b == best_class(labeled_detections[k].det, service.class_threshold)
              IN  /\ b.class_index < Len(object_labels)
                  /\ labeled_detections[k].label = object_labels[b.class_index + 1]

\* one label, and a detection whose best class is the second
C4_Witness ==
    /\ result = "panic"
    /\ Len(object_labels) = 1
    /\ \E i \in 1..Len(detections) : OutOfRange(detections[i])
    /\ file = NoFile

\* C5: however the run ends, the output path holds the complete ranked result
\* of a successful run or no file written by this run.
C5_CompleteFileOrNone ==
    pc = "done" =>
        \/ file = NoFile
        \/ /\ result = "Ok"
           /\ file.data = output
           /\ Descending(file.data)

\* C6: when the configuration bytes do not deserialize, the process does not
\* go on to load a model.
C6_MalformedConfigurationIsFatal ==
    parse_ret = "Ok(false)" => ~Called("Network::load")

\* C7: on bytes that do not deserialize, try_parse returns false and leaves the
\* service as it was (as new() made it); on bytes that do, it returns true and
\* the service is the configuration the bytes stand for, every field of it.
C7_TryParse ==
    parse_ret # "none" =>
        /\ input \in MalformedBuffers => (parse_ret = "Ok(false)" /\ service = New)
        /\ \A thr \in Thresholds, lb \in BOOLEAN :
              input \in {Serialized(thr, lb), Serialized(thr, lb) \o <<7>>}
                  => (parse_ret = "Ok(true)" /\ service = Configured(thr, lb))
        /\ input = SerializedEmptyPaths => (parse_ret = "Ok(true)" /\ service = New)
        /\ pc = "load_network" => (result = "running" /\ err = "none")

\* bytes cut short after the third path: no field of the service has changed
C7_Witness ==
    /\ parse_ret = "Ok(false)"
    /\ input = <<1, 105, 1, 99, 1, 109>>
    /\ service = New

\* a configuration with letterbox false has replaced the new() one
C7_WitnessReplaced ==
    /\ parse_ret = "Ok(true)"
    /\ service.letterbox = FALSE
    /\ service.output_path = <<111>>

\* the lines of a text that holds no carriage return, said without recursion
NewlinesOf(t) == {i \in 1..Len(t) : t[i] = "\n"}
LineCount(t) ==
    Cardinality(NewlinesOf(t)) + (IF t # <<>> /\ t[Len(t)] # "\n" THEN 1 ELSE 0)
NthNewline(t, k) ==
    CHOOSE p \in NewlinesOf(t) : Cardinality({q \in NewlinesOf(t) : q <= p}) = k
LineOf(t, k) ==
    SubSeq(t,
           IF k = 1 THEN 1 ELSE NthNewline(t, k - 1) + 1,
           IF k <= Cardinality(NewlinesOf(t)) THEN NthNewline(t, k) - 1 ELSE Len(t))
AllLinesOf(t) == [k \in 1..LineCount(t) |-> LineOf(t, k)]
NotEmpty(l) == l # <<>>

LabelsRead == Called("read_to_string") /\ err # "read_to_string"

\* C8 as amended: the label table holds every line of the labels file in
\* order, the empty ones too, and the label of class N is line N (from 0): an
\* empty line in the middle of the file takes a class index.
C8_EveryLineIsALabel ==
    LabelsRead =>
        /\ object_labels = AllLinesOf(labels_text)
        /\ Collected =>
              \A k \in 1..Len(labeled_detections) :
                  \E c \in 1..Len(labeled_detections[k].det.probs) :
                      /\ labeled_detections[k].prob = labeled_detections[k].det.probs[c]
                      /\ labeled_detections[k].label = LineOf(labels_text, c)

\* "c", an empty line, "d": class 1 is written with the empty label
C8_Witness ==
    /\ result = "Ok"
    /\ labels_text = <<"c", "\n", "\n", "d">>
    /\ object_labels = << <<"c">>, <<>>, <<"d">> >>
    /\ \E k \in 1..Len(file.data) : file.data[k].label = <<>>

\* C8 as stated: the label table is the non-empty lines of the labels file
C8_NonEmptyLinesOnly ==
    LabelsRead => object_labels = SelectSeq(AllLinesOf(labels_text), NotEmpty)

\* C9: when predict returns no detection (the model, the labels and the image
\* were loaded), nothing but the creation of the output file can fail; and
\* when that succeeds infer returns Ok, having written a file of zero lines.
C9_NoDetectionIsNoError ==
    (Called("predict") /\ detections = <<>>) =>
        /\ labeled_detections = <<>>
        /\ output = <<>>
        /\ err \in {"none", "File::create"}
        /\ pc = "done" /\ err = "none" =>
              /\ result = "Ok"
              /\ file = [created |-> TRUE, data |-> <<>>]

C9_Witness ==
    /\ Called("predict")
    /\ detections = <<>>
    /\ result = "Ok"
    /\ file = [created |-> TRUE, data |-> <<>>]

\* the calls of a run that fails nowhere, in order
FullTrace ==
    <<"File::open", "try_parse", "Network::load", "read_to_string", "Image::open",
      "predict", "collect", "sort_by", "format", "File::create", "write_all">>

\* the steps happen in the one order, each at most once, and the output file
\* is created only after every step before it went through
StepsInOrder ==
    /\ Len(trace) <= Len(FullTrace)
    /\ trace = SubSeq(FullTrace, 1, Len(trace))
    /\ err # "none" => (pc = "done" /\ result # "Ok")
    /\ file.created =>
          /\ SubSeq(trace, 1, 10) = SubSeq(FullTrace, 1, 10)
          /\ err \in {"none", "write_all"}

\* C10: the steps happen in the order parse, load, predict, post-process,
\* write, each only after the one before it has succeeded, predict once at most.
C10_EachStepAfterSuccess ==
    /\ StepsInOrder
    /\ Called("Network::load") => parse_ret = "Ok(true)"

====
